---- MODULE Spec2Model ----
(***************************************************************************)
(* State-machine model of the CopilotV2 edit-prediction provider           *)
(* (crates/copilot_v2/src/copilotv2_provider.rs): the provider's fields,   *)
(* the refresh tasks it spawns on the foreground executor, and the         *)
(* operations refresh / cycle / accept / discard / suggest.                *)
(***************************************************************************)
EXTENDS Integers, Sequences, FiniteSets, TLC

\* ------------------------------------------------------------------ bounds

\* Longest buffer text the model explores.
MaxLen == 1

\* Number of refresh calls in one behaviour.
MaxRefresh == 2

\* Longest candidate list built by push_completion in SpecPush.
MaxPush == 3

\* Number of todo items created in one behaviour (ids handed out).
MaxTodos == 2

\* ------------------------------------------------------------ value spaces

\* Option<T>: None is the empty sequence, Some(x) the one-element sequence.
None == << >>

Some(x) == << x >>

\* Entity ids of the buffers the editor hands to the provider.
Buffers == {"B1", "B2"}

\* Characters buffer texts are built from.
Chars == {"/"}

RECURSIVE TextsOfLen(_)
TextsOfLen(n) ==
    IF n = 0 THEN { << >> }
    ELSE { Append(t, c) : t \in TextsOfLen(n - 1), c \in Chars }

Texts == UNION { TextsOfLen(n) : n \in 0..MaxLen }

TaskIds == 1..MaxRefresh

\* ------------------------------------------------------------ text helpers

IsWhitespace(ch) == ch \in {" ", "\n", "\t", "\r"}

\* str::trim_end
RECURSIVE TrimEnd(_)
TrimEnd(s) ==
    IF s # << >> /\ IsWhitespace(s[Len(s)]) THEN TrimEnd(SubSeq(s, 1, Len(s) - 1))
    ELSE s

\* str::trim_start
RECURSIVE TrimStart(_)
TrimStart(s) ==
    IF s # << >> /\ IsWhitespace(s[1]) THEN TrimStart(Tail(s))
    ELSE s

\* str::trim
Trim(s) == TrimStart(TrimEnd(s))

\* str::ends_with
EndsWith(s, p) ==
    /\ Len(s) >= Len(p)
    /\ SubSeq(s, Len(s) - Len(p) + 1, Len(s)) = p

\* text[..cursor_offset].rfind('\n').map_or(0, |pos| pos + 1)
LineStart(text, cursor_offset) ==
    LET nl == { i \in 1..cursor_offset : text[i] = "\n" }
    IN  IF nl = {} THEN 0 ELSE CHOOSE i \in nl : \A j \in nl : j <= i

FunctionSuffix == <<"f", "u", "n", "c", "t", "i", "o", "n", " ">>

CommentSuffix == <<"/", "/">>

ConsoleSuffix == <<"c", "o", "n", "s", "o", "l", "e", ".">>

FunctionText == <<"m", "y", "F", "u", "n", "c", "t", "i", "o", "n", "(", ")", " ", "{", "\n", " ", " ", " ", " ", "/", "/", " ", "T", "O", "D", "O", ":", " ", "I", "m", "p", "l", "e", "m", "e", "n", "t", " ", "f", "u", "n", "c", "t", "i", "o", "n", "\n", "}">>

CommentText == <<" ", "T", "O", "D", "O", ":", " ", "A", "d", "d", " ", "i", "m", "p", "l", "e", "m", "e", "n", "t", "a", "t", "i", "o", "n", " ", "h", "e", "r", "e">>

ConsoleText == <<"l", "o", "g", "(", "'", "D", "e", "b", "u", "g", " ", "m", "e", "s", "s", "a", "g", "e", "'", ")">>

DefaultText == <<"/", "/", " ", "C", "o", "p", "i", "l", "o", "t", "V", "2", " ", "s", "u", "g", "g", "e", "s", "t", "i", "o", "n">>

\* ------------------------------------------------------------------ anchors

\* A position in a buffer's coordinate space, snapshotted when it was taken.
Anchor(b, off, bias) == [buffer |-> b, offset |-> off, bias |-> bias]

\* buffer.anchor_at(offset, bias)
AnchorAt(b, off, bias) == Anchor(b, off, bias)

\* anchor.to_offset(&buffer_snapshot)
ToOffset(a) == a.offset

\* anchor.bias_right(&buffer_snapshot)
BiasRight(a) == IF a.bias = "Right" THEN a ELSE AnchorAt(a.buffer, ToOffset(a), "Right")

\* anchor.is_valid(&buffer_snapshot): the anchor belongs to the buffer and still
\* resolves to a position of the current snapshot.
IsValid(a, b, txt) == a.buffer = b /\ a.offset <= Len(txt)

\* The cursor positions an editor can hand over for buffer b holding txt
\* (selection heads, biased left).
CursorsOf(b, txt) == { Anchor(b, off, "Left") : off \in 0..Len(txt) }

\* buffer.read(cx).file() ... extension(): B1 is "main.rs", B2 has no file.
FileExtension(b) == IF b = "B1" THEN Some("rs") ELSE None

\* -------------------------------------------------------------------- state

VARIABLES
    cycled,                   \* CopilotV2Provider.cycled
    buffer_id,                \* CopilotV2Provider.buffer_id: Option<EntityId>
    completions,              \* CopilotV2Provider.completions: Vec<MockCompletion>
    active_completion_index,  \* CopilotV2Provider.active_completion_index
    file_extension,           \* CopilotV2Provider.file_extension
    pending_refresh,          \* CopilotV2Provider.pending_refresh: Option<Task>
    pending_cycling_refresh,  \* CopilotV2Provider.pending_cycling_refresh
    tasks,                    \* the futures spawned by refresh, by task id
    issued,                   \* number of refresh calls so far (id of the newest task)
    text,                     \* current text of every buffer
    status,                   \* CopilotV2.status of the service the provider reads
    compare,                  \* one run of completion_test_cli's compare_all
    service,                  \* CopilotV2: _maintain_server and the tasks its calls returned
    wait,                     \* the readiness wait of a copilot/supermaven test harness
    todos_file,               \* <worktree>/.zed/todos.json as TodoListTool finds it
    next_uuid,                \* the id the next Uuid::new_v4() returns
    todo_run,                 \* history: the last TodoListTool::run and its outcome
    origin,                   \* history: which refresh wrote the cached set
    last                      \* history: the operation that ran last and its outcome

providerVars == << cycled, buffer_id, completions, active_completion_index,
                   file_extension, pending_refresh, pending_cycling_refresh >>

\* State of the components the provider works with.
\* The todo tool's store and its history.
todoVars == << todos_file, next_uuid, todo_run >>

collaboratorVars == << status, compare, wait, service, todoVars >>

vars == << cycled, buffer_id, completions, active_completion_index, file_extension,
           pending_refresh, pending_cycling_refresh, tasks, issued, text, status,
           compare, wait, service, todos_file, next_uuid, todo_run, origin, last >>

\* ------------------------------------------------------ MockCompletion list

MockCompletion(txt, start, end) == [text |-> txt, range |-> [start |-> start, end |-> end]]

\* CopilotV2Provider::push_completion with the dedup check removed.
PushCompletionNoDedup(list, new_completion) == Append(list, new_completion)

\* CopilotV2Provider::push_completion
PushCompletion(list, new_completion) ==
    IF \E i \in 1..Len(list) :
           /\ list[i].text = new_completion.text
           /\ list[i].range = new_completion.range
    THEN list
    ELSE Append(list, new_completion)

\* for completion in mock_completions { this.push_completion(completion) }
RECURSIVE PushAll(_, _)
PushAll(list, news) ==
    IF news = << >> THEN list
    ELSE PushAll(PushCompletion(list, Head(news)), Tail(news))

\* CopilotV2Provider::active_completion: Vec::get(active_completion_index)
ActiveCompletion ==
    IF active_completion_index < Len(completions)
    THEN Some(completions[active_completion_index + 1])
    ELSE None

\* The text chosen for the current line (lines 84-93).
CompletionText(current_line) ==
    IF EndsWith(TrimEnd(current_line), FunctionSuffix) THEN FunctionText
    ELSE IF EndsWith(TrimEnd(current_line), CommentSuffix) THEN CommentText
    ELSE IF EndsWith(TrimEnd(current_line), ConsoleSuffix) THEN ConsoleText
    ELSE DefaultText

\* generate_mock_completions with the bound check of line 69 off by one (>=).
GenerateMockCompletionsOffByOne(b, cursor_position, txt) ==
    LET cursor_offset == ToOffset(cursor_position)
    IN  IF cursor_offset >= Len(txt) THEN << >>
        ELSE LET line_start   == LineStart(txt, cursor_offset)
                 current_line == SubSeq(txt, line_start + 1, cursor_offset)
                 safe_cursor  == AnchorAt(b, cursor_offset, "Right")
             IN  << MockCompletion(CompletionText(current_line), safe_cursor, safe_cursor) >>

\* generate_mock_completions anchoring the insertion at the start of the line.
GenerateMockCompletionsAtLineStart(b, cursor_position, txt) ==
    LET cursor_offset == ToOffset(cursor_position)
    IN  IF cursor_offset > Len(txt) THEN << >>
        ELSE LET line_start   == LineStart(txt, cursor_offset)
                 current_line == SubSeq(txt, line_start + 1, cursor_offset)
                 safe_cursor  == AnchorAt(b, line_start, "Right")
             IN  << MockCompletion(CompletionText(current_line), safe_cursor, safe_cursor) >>

\* CopilotV2Provider::generate_mock_completions
GenerateMockCompletions(b, cursor_position, txt) ==
    LET cursor_offset == ToOffset(cursor_position)
    IN  IF cursor_offset > Len(txt) THEN << >>
        ELSE LET line_start   == LineStart(txt, cursor_offset)
                 current_line == SubSeq(txt, line_start + 1, cursor_offset)
                 safe_cursor  == AnchorAt(b, cursor_offset, "Right")
             IN  << MockCompletion(CompletionText(current_line), safe_cursor, safe_cursor) >>

\* --------------------------------------------------------- provider record

\* The provider's fields as one value (struct CopilotV2Provider).
ProviderState ==
    [ cycled                  |-> cycled,
      buffer_id               |-> buffer_id,
      completions             |-> completions,
      active_completion_index |-> active_completion_index,
      file_extension          |-> file_extension,
      pending_refresh         |-> pending_refresh,
      pending_cycling_refresh |-> pending_cycling_refresh ]

\* CopilotV2Provider::new
NewProvider ==
    [ cycled                  |-> FALSE,
      buffer_id               |-> None,
      completions             |-> << >>,
      active_completion_index |-> 0,
      file_extension          |-> None,
      pending_refresh         |-> None,
      pending_cycling_refresh |-> None ]

\* The provider right after CopilotV2Provider::new.
SetProviderInit ==
    /\ cycled = NewProvider.cycled
    /\ buffer_id = NewProvider.buffer_id
    /\ completions = NewProvider.completions
    /\ active_completion_index = NewProvider.active_completion_index
    /\ file_extension = NewProvider.file_extension
    /\ pending_refresh = NewProvider.pending_refresh
    /\ pending_cycling_refresh = NewProvider.pending_cycling_refresh

\* Assigns every provider field from the record p.
SetProvider(p) ==
    /\ cycled' = p.cycled
    /\ buffer_id' = p.buffer_id
    /\ completions' = p.completions
    /\ active_completion_index' = p.active_completion_index
    /\ file_extension' = p.file_extension
    /\ pending_refresh' = p.pending_refresh
    /\ pending_cycling_refresh' = p.pending_cycling_refresh

\* ------------------------------------------------------------------- tasks

\* pub const COPILOTV2_DEBOUNCE_TIMEOUT: Duration, in milliseconds.
COPILOTV2_DEBOUNCE_TIMEOUT == 75

\* A future that was never spawned, has finished, or was dropped: it holds no
\* captured values any more.  `at` is the await point a dropped future was at,
\* `waited` the time a live future has spent on the debounce timer.
DeadTask(pc, at) ==
    [pc |-> pc, buffer |-> None, cursor |-> None, debounce |-> FALSE, at |-> at,
     waited |-> 0]

\* The future built by cx.spawn(async move |this, cx| ...) in refresh, capturing
\* buffer, cursor_position and debounce; not yet polled.
SpawnedTask(b, cursor_position, debounce) ==
    [pc |-> "start", buffer |-> Some(b), cursor |-> Some(cursor_position),
     debounce |-> debounce, at |-> "", waited |-> 0]

\* A task that can still be polled.
Live(t) == tasks[t].pc \in {"start", "timer", "ready"}

\* Drop of a Task handle (the old value of pending_refresh): a future that has
\* not finished is cancelled and never polled again.
DropTask(ts, handle) ==
    IF handle = None THEN ts
    ELSE LET t == handle[1]
         IN  IF ts[t].pc \in {"start", "timer", "ready"}
             THEN [ts EXCEPT ![t] = DeadTask("cancelled", ts[t].pc)]
             ELSE ts

\* ----------------------------------------------------------------- history

\* What the last operation was, on what, and what it returned.  follows is
\* what the operation came directly after, where that is recorded: for cycle
\* the preceding cycle call, for a completion the point its task resumed from.
Last(op, task, b, cursor, arg, result, notified, prev, len) ==
    [ op |-> op, task |-> task, buffer |-> b, cursor |-> cursor, arg |-> arg,
      result |-> result, notified |-> notified, prev |-> prev, len |-> len,
      follows |-> None ]

\* ------------------------------------------------------------------ queries

\* EditPredictionProvider::is_refreshing
IsRefreshing == pending_refresh # None /\ completions = << >>

\* enum CopilotV2Status; data is the payload of Error, SigningIn and SignedIn.
Status(kind, data) == [kind |-> kind, data |-> data]

Starting == Status("Starting", "")
Downloading == Status("Downloading", "")
Error(message) == Status("Error", message)
SignedOut == Status("SignedOut", "")
SigningIn(prompt) == Status("SigningIn", prompt)
SignedIn(username) == Status("SignedIn", username)
Unauthorized == Status("Unauthorized", "")

\* Every value of CopilotV2Status, one payload per variant that carries one.
Statuses ==
    { Starting, Downloading, Error("failed"), SignedOut, SigningIn("code"),
      SignedIn("test-user"), Unauthorized }

\* CopilotV2Status::is_authorized
IsAuthorized(s) == s.kind = "SignedIn"

\* The status field CopilotV2::start constructs the service with.
StartStatus == SignedIn("test-user")

\* EditPredictionProvider::is_enabled: the status is read for the log line and
\* the result is the literal true of line 141.
IsEnabled(b, cursor_position) ==
    LET copilot_status == status
        is_enabled == TRUE
    IN  is_enabled

\* Range<usize>::is_empty
RangeIsEmpty(start, end) == ~(start < end)

\* EditPredictionProvider::suggest without the validity check of lines 272-278.
SuggestUnchecked(b, cursor_position) ==
    IF ActiveCompletion = None THEN None
    ELSE LET completion    == ActiveCompletion[1]
             start         == ToOffset(completion.range.start)
             end           == ToOffset(completion.range.end)
             cursor_offset == ToOffset(cursor_position)
             position      == BiasRight(cursor_position)
         IN  IF /\ RangeIsEmpty(start, end)
                /\ start = cursor_offset
                /\ Trim(completion.text) # << >>
             THEN Some([ id    |-> "copilotv2-mock",
                         edits |-> << [ range |-> [start |-> position, end |-> position],
                                        text  |-> completion.text ] >> ])
             ELSE None

\* EditPredictionProvider::suggest without the cursor comparison of line 286.
SuggestAnyCursor(b, cursor_position) ==
    IF ActiveCompletion = None THEN None
    ELSE LET completion == ActiveCompletion[1]
         IN  IF \/ Some(b) # buffer_id
                \/ ~IsValid(completion.range.start, b, text[b])
                \/ ~IsValid(completion.range.end, b, text[b])
             THEN None
             ELSE LET start    == ToOffset(completion.range.start)
                      end      == ToOffset(completion.range.end)
                      position == BiasRight(cursor_position)
                  IN  IF RangeIsEmpty(start, end) /\ Trim(completion.text) # << >>
                      THEN Some([ id    |-> "copilotv2-mock",
                                  edits |-> << [ range |-> [start |-> position,
                                                            end   |-> position],
                                                 text  |-> completion.text ] >> ])
                      ELSE None

\* EditPredictionProvider::suggest
Suggest(b, cursor_position) ==
    IF ActiveCompletion = None THEN None
    ELSE LET completion == ActiveCompletion[1]
         IN  IF \/ Some(b) # buffer_id
                \/ ~IsValid(completion.range.start, b, text[b])
                \/ ~IsValid(completion.range.end, b, text[b])
             THEN None
             ELSE LET start         == ToOffset(completion.range.start)
                      end           == ToOffset(completion.range.end)
                      cursor_offset == ToOffset(cursor_position)
                      position      == BiasRight(cursor_position)
                  IN  IF /\ RangeIsEmpty(start, end)
                         /\ start = cursor_offset
                         /\ Trim(completion.text) # << >>
                      THEN Some([ id    |-> "copilotv2-mock",
                                  edits |-> << [ range |-> [start |-> position,
                                                            end   |-> position],
                                                 text  |-> completion.text ] >> ])
                      ELSE None

\* ------------------------------------------------------------------- init

\* No operation has run yet.
NoOp == Last("init", 0, None, None, None, None, FALSE, NewProvider, 0)

\* Result values: anyhow::Result<T> as Ok(value) or Err(error).
Ok(value) == [ok |-> TRUE, value |-> Some(value), error |-> None]
Err(error) == [ok |-> FALSE, value |-> None, error |-> Some(error)]

\* The todos file: absent, holding a list serde_json can parse, or unreadable
\* (read or parse failure).
TodosFile(state, todos) == [state |-> state, todos |-> todos]

\* No todos file has been written yet.
NoFile == TodosFile("absent", << >>)

\* TodoListTool::run has not been called.
NoRun ==
    [ input |-> None, before |-> NoFile, loaded |-> Ok(<< >>), output |-> Ok(<< >>),
      warned |-> FALSE, message |-> None, saved |-> "none", uuid |-> 0 ]

\* CopilotV2::start: server None, no registered buffer, the maintenance task
\* spawned by start_language_server still downloading, no call made yet.
StartedService ==
    [ server |-> None, registered_buffers |-> {}, maintain_server |-> "downloading",
      calls |-> << >>, registered |-> None ]

\* No test harness is running.
NoWait ==
    [ pc |-> "idle", provider |-> "", ready |-> FALSE, attempts |-> 0, reads |-> 0,
      requested |-> FALSE, result |-> None ]

\* compare_all has not been entered.
NoCompare ==
    [ pc |-> "idle", args |-> None, show_diff |-> FALSE, invoked |-> << >>,
      returned |-> << >>, results |-> << >>, printed |-> None ]

\* No refresh has populated the cache yet.
NoOrigin == [task |-> 0, issued |-> 0, buffer |-> None, offset |-> 0]

Init ==
    /\ SetProviderInit
    /\ tasks = [t \in TaskIds |-> DeadTask("none", "")]
    /\ issued = 0
    /\ text \in [Buffers -> Texts]
    /\ status = StartStatus
    /\ compare = NoCompare
    /\ wait = NoWait
    /\ service = StartedService
    /\ todos_file = NoFile
    /\ next_uuid = 1
    /\ todo_run = NoRun
    /\ origin = NoOrigin
    /\ last = NoOp

\* ---------------------------------------------------------------- refresh

\* refresh that lets the previous task run on (its handle detached instead of
\* dropped when pending_refresh is overwritten).
RefreshDetached(b, cursor_position, debounce) ==
    /\ issued < MaxRefresh
    /\ LET id == issued + 1
       IN  /\ tasks' = [tasks EXCEPT ![id] = SpawnedTask(b, cursor_position, debounce)]
           /\ pending_refresh' = Some(id)
           /\ issued' = id
           /\ last' = Last("refresh", id, Some(b), Some(cursor_position), debounce,
                           None, FALSE, ProviderState, Len(text[b]))
    /\ UNCHANGED << cycled, buffer_id, completions, active_completion_index,
                    file_extension, pending_cycling_refresh, text, origin, collaboratorVars >>

\* EditPredictionProvider::refresh: spawns the task and stores its handle in
\* pending_refresh; the handle stored before is dropped by the assignment.
Refresh(b, cursor_position, debounce) ==
    /\ issued < MaxRefresh
    /\ LET id == issued + 1
       IN  /\ tasks' = [DropTask(tasks, pending_refresh) EXCEPT
                           ![id] = SpawnedTask(b, cursor_position, debounce)]
           /\ pending_refresh' = Some(id)
           /\ issued' = id
           /\ last' = Last("refresh", id, Some(b), Some(cursor_position), debounce,
                           None, FALSE, ProviderState, Len(text[b]))
    /\ UNCHANGED << cycled, buffer_id, completions, active_completion_index,
                    file_extension, pending_cycling_refresh, text, origin, collaboratorVars >>

\* The closure of this.update (lines 169-200) that appends to the old set
\* instead of clearing it first.
RefreshUpdateNoClear(p, b, mock_completions) ==
    IF mock_completions # << >>
    THEN [ p EXCEPT !.cycled = FALSE,
                    !.pending_refresh = None,
                    !.pending_cycling_refresh = None,
                    !.completions = PushAll(p.completions, mock_completions),
                    !.active_completion_index = 0,
                    !.buffer_id = Some(b),
                    !.file_extension = FileExtension(b) ]
    ELSE p

\* The closure of this.update (lines 169-200) that records the buffer only when
\* none was recorded before.
RefreshUpdateKeepsBuffer(p, b, mock_completions) ==
    IF mock_completions # << >>
    THEN [ p EXCEPT !.cycled = FALSE,
                    !.pending_refresh = None,
                    !.pending_cycling_refresh = None,
                    !.completions = PushAll(<< >>, mock_completions),
                    !.active_completion_index = 0,
                    !.buffer_id = IF p.buffer_id = None THEN Some(b) ELSE p.buffer_id,
                    !.file_extension = FileExtension(b) ]
    ELSE p

\* The closure of this.update (lines 169-200) that, on an empty result, empties
\* the cache and releases the handle.
RefreshUpdateResetsOnEmpty(p, b, mock_completions) ==
    IF mock_completions # << >>
    THEN [ p EXCEPT !.cycled = FALSE,
                    !.pending_refresh = None,
                    !.pending_cycling_refresh = None,
                    !.completions = PushAll(<< >>, mock_completions),
                    !.active_completion_index = 0,
                    !.buffer_id = Some(b),
                    !.file_extension = FileExtension(b) ]
    ELSE [ p EXCEPT !.pending_refresh = None, !.completions = << >> ]

\* The closure of this.update (lines 169-200), given what
\* generate_mock_completions returned: the provider it leaves.
RefreshUpdate(p, b, mock_completions) ==
    IF mock_completions # << >>
    THEN [ p EXCEPT !.cycled = FALSE,
                    !.pending_refresh = None,
                    !.pending_cycling_refresh = None,
                    !.completions = PushAll(<< >>, mock_completions),
                    !.active_completion_index = 0,
                    !.buffer_id = Some(b),
                    !.file_extension = FileExtension(b) ]
    ELSE p

\* Where a future stood when the poll that ran it to the end began: whether it
\* was spawned with debounce, the point it resumed from and the time it had
\* spent on the debounce timer.
ResumedFrom(task) ==
    [debounce |-> task.debounce, at |-> task.pc, waited |-> task.waited]

\* The rest of the task's future after the debounce: this.update(...) and Ok(()).
FinishTask(t) ==
    LET b      == tasks[t].buffer[1]
        cursor == tasks[t].cursor[1]
        mock   == GenerateMockCompletions(b, cursor, text[b])
        p      == RefreshUpdate(ProviderState, b, mock)
        kept   == IF p.pending_refresh = pending_refresh THEN tasks
                  ELSE DropTask(tasks, pending_refresh)
    IN  /\ SetProvider(p)
        /\ tasks' = [kept EXCEPT ![t] = DeadTask("done", "")]
        /\ origin' = IF mock # << >>
                     THEN [task |-> t, issued |-> issued, buffer |-> Some(b),
                           offset |-> ToOffset(cursor)]
                     ELSE origin
        /\ last' = [ Last("complete", t, Some(b), Some(cursor), mock, None,
                          mock # << >>, ProviderState, Len(text[b]))
                     EXCEPT !.follows = Some(ResumedFrom(tasks[t])) ]
        /\ UNCHANGED << issued, text, collaboratorVars >>

\* The first poll without the `if debounce` timer of lines 159-164.
TaskPollNoDebounce(t) ==
    /\ tasks[t].pc = "start"
    /\ FinishTask(t)

\* First poll of a spawned task: it either parks on the debounce timer or, with
\* debounce false, runs straight through to the end.
TaskPoll(t) ==
    /\ tasks[t].pc = "start"
    /\ IF tasks[t].debounce
       THEN /\ tasks' = [tasks EXCEPT ![t].pc = "timer"]
            /\ last' = Last("poll", t, None, None, None, None, FALSE, ProviderState, 0)
            /\ UNCHANGED << providerVars, issued, text, origin, collaboratorVars >>
       ELSE FinishTask(t)

\* The background executor's timer of COPILOTV2_DEBOUNCE_TIMEOUT elapses and
\* wakes the task.
TimerFired(t) ==
    /\ tasks[t].pc = "timer"
    /\ tasks' = [tasks EXCEPT ![t].pc = "ready",
                              ![t].waited = COPILOTV2_DEBOUNCE_TIMEOUT]
    /\ last' = Last("timer", t, None, None, None, None, FALSE, ProviderState, 0)
    /\ UNCHANGED << providerVars, issued, text, origin, collaboratorVars >>

\* The woken task is polled again and runs to the end.
TaskResume(t) ==
    /\ tasks[t].pc = "ready"
    /\ FinishTask(t)

\* ------------------------------------------------------- other operations

\* The cycle call the next operation directly follows, if the last operation
\* was one: its direction and the active index it started from.
PrecedingCycle ==
    IF last.op = "cycle"
    THEN Some([direction |-> last.arg, index |-> last.prev.active_completion_index])
    ELSE None

\* The record of a cycle call.
CycleRecord(direction) ==
    [ Last("cycle", 0, None, None, direction, None,
           completions # << >>, ProviderState, 0) EXCEPT !.follows = PrecedingCycle ]

\* cycle that advances on Next and ignores Prev.
CycleNextOnly(direction) ==
    /\ active_completion_index' =
          IF completions # << >> /\ direction = "Next"
          THEN (active_completion_index + 1) % Len(completions)
          ELSE active_completion_index
    /\ last' = CycleRecord(direction)
    /\ UNCHANGED << cycled, buffer_id, completions, file_extension, pending_refresh,
                    pending_cycling_refresh, tasks, issued, text, origin, collaboratorVars >>

\* cycle without the is_empty guard of line 220: it steps the index and
\* notifies whatever the set holds.
CycleUnguarded(direction) ==
    /\ active_completion_index' = active_completion_index + 1
    /\ last' = [CycleRecord(direction) EXCEPT !.notified = TRUE]
    /\ UNCHANGED << cycled, buffer_id, completions, file_extension, pending_refresh,
                    pending_cycling_refresh, tasks, issued, text, origin, collaboratorVars >>

\* cycle that gives up the refresh in flight, as a re-fetch would.
CycleDropsPending(direction) ==
    /\ pending_refresh' = None
    /\ tasks' = DropTask(tasks, pending_refresh)
    /\ last' = CycleRecord(direction)
    /\ UNCHANGED << cycled, buffer_id, completions, active_completion_index,
                    file_extension, pending_cycling_refresh, issued, text, origin,
                    collaboratorVars >>

\* EditPredictionProvider::cycle
Cycle(direction) ==
    /\ last' = CycleRecord(direction)
    /\ UNCHANGED << providerVars, tasks, issued, text, origin, collaboratorVars >>

\* accept that also gives up the refresh in flight.
AcceptCancelsRefresh ==
    /\ pending_refresh' = None
    /\ tasks' = DropTask(tasks, pending_refresh)
    /\ last' = Last("accept", 0, None, None, None, ActiveCompletion,
                    FALSE, ProviderState, 0)
    /\ UNCHANGED << cycled, buffer_id, completions, active_completion_index,
                    file_extension, pending_cycling_refresh, issued, text, origin, collaboratorVars >>

\* EditPredictionProvider::accept; result is the completion the acceptance is
\* logged for (line 231), None on the else branch.
Accept ==
    /\ last' = Last("accept", 0, None, None, None, ActiveCompletion,
                    FALSE, ProviderState, 0)
    /\ UNCHANGED << providerVars, tasks, issued, text, origin, collaboratorVars >>

\* discard without the early return of lines 246-249.
DiscardIgnoresSetting(show_edit_predictions) ==
    /\ last' = Last("discard", 0, None, None, show_edit_predictions,
                    IF completions # << >> THEN Some(completions) ELSE None,
                    FALSE, ProviderState, 0)
    /\ UNCHANGED << providerVars, tasks, issued, text, origin, collaboratorVars >>

\* discard that clears the cached set when edit predictions are shown.
DiscardClears(show_edit_predictions) ==
    /\ completions' = IF show_edit_predictions THEN << >> ELSE completions
    /\ last' = Last("discard", 0, None, None, show_edit_predictions,
                    IF show_edit_predictions /\ completions # << >>
                    THEN Some(completions) ELSE None,
                    FALSE, ProviderState, 0)
    /\ UNCHANGED << cycled, buffer_id, active_completion_index, file_extension,
                    pending_refresh, pending_cycling_refresh, tasks, issued, text,
                    origin, collaboratorVars >>

\* EditPredictionProvider::discard; show_edit_predictions is the setting read
\* at line 244, result the completions a rejection would be sent for.
Discard(show_edit_predictions) ==
    /\ last' = Last("discard", 0, None, None, show_edit_predictions,
                    IF show_edit_predictions /\ completions # << >>
                    THEN Some(completions) ELSE None,
                    FALSE, ProviderState, 0)
    /\ UNCHANGED << providerVars, tasks, issued, text, origin, collaboratorVars >>

\* A call of EditPredictionProvider::suggest and the value it returns.
SuggestCall(b, cursor_position) ==
    /\ last' = Last("suggest", 0, Some(b), Some(cursor_position), None,
                    Suggest(b, cursor_position), FALSE, ProviderState, Len(text[b]))
    /\ UNCHANGED << providerVars, tasks, issued, text, origin, collaboratorVars >>

\* A call of EditPredictionProvider::is_enabled: the status it read and the
\* value it returned.
IsEnabledCall(b, cursor_position) ==
    /\ last' = Last("is_enabled", 0, Some(b), Some(cursor_position), status,
                    IsEnabled(b, cursor_position), FALSE, ProviderState, Len(text[b]))
    /\ UNCHANGED << providerVars, tasks, issued, text, origin, collaboratorVars >>

\* The user edits buffer b: its text becomes new_text.
EditBuffer(b, new_text) ==
    /\ new_text # text[b]
    /\ text' = [text EXCEPT ![b] = new_text]
    /\ last' = Last("edit", 0, Some(b), None, None, None, FALSE, ProviderState, Len(new_text))
    /\ UNCHANGED << providerVars, tasks, issued, origin, collaboratorVars >>

Next ==
    \/ \E b \in Buffers, debounce \in BOOLEAN :
          \E c \in CursorsOf(b, text[b]) : Refresh(b, c, debounce)
    \/ \E t \in TaskIds : TaskPoll(t)
    \/ \E t \in TaskIds : TimerFired(t)
    \/ \E t \in TaskIds : TaskResume(t)
    \/ \E direction \in {"Prev", "Next"} : Cycle(direction)
    \/ Accept
    \/ \E show_edit_predictions \in BOOLEAN : Discard(show_edit_predictions)
    \/ \E b \in Buffers : \E c \in CursorsOf(b, text[b]) : SuggestCall(b, c)
    \/ \E b \in Buffers, new_text \in Texts : EditBuffer(b, new_text)

Spec == Init /\ [][Next]_vars

\* ------------------------------------------------- push_completion alone

\* Ranges a candidate can carry in buffer B1: every start <= end within MaxLen.
CandidateRanges ==
    { r \in [ start : { AnchorAt("B1", i, "Right") : i \in 0..MaxLen },
              end   : { AnchorAt("B1", j, "Right") : j \in 0..MaxLen } ] :
          ToOffset(r.start) <= ToOffset(r.end) }

\* Candidates handed to push_completion, duplicates of cached ones included.
Candidates ==
    { [text |-> txt, range |-> r] : txt \in {DefaultText, CommentText}, r \in CandidateRanges }

\* One call of push_completion(new_completion) on the provider's list.
PushStep(new_completion) ==
    /\ Len(PushCompletion(completions, new_completion)) <= MaxPush
    /\ completions' = PushCompletion(completions, new_completion)
    /\ last' = Last("push", 0, None, None, new_completion, None, FALSE, ProviderState, 0)
    /\ UNCHANGED << cycled, buffer_id, active_completion_index, file_extension,
                    pending_refresh, pending_cycling_refresh, tasks, issued, text, origin, collaboratorVars >>

NextPush == \E new_completion \in Candidates : PushStep(new_completion)

\* push_completion applied to arbitrary candidate sequences, from an empty list.
SpecPush == Init /\ [][NextPush]_vars

\* ------------------------------------------- cycle over pushed candidates

\* Candidates of the shape generate_mock_completions builds: an empty range.
EmptyRangeCandidates == { c \in Candidates : c.range.start = c.range.end }

NextCycle ==
    \/ \E new_completion \in EmptyRangeCandidates : PushStep(new_completion)
    \/ \E direction \in {"Prev", "Next"} : Cycle(direction)

\* cycle called, in any order and number, on the lists push_completion builds.
SpecCycle == Init /\ [][NextCycle]_vars

\* ------------------------------------------------- is_enabled per status

\* The provider attached to a service in any status CopilotV2Status admits.
InitAnyStatus ==
    /\ SetProviderInit
    /\ tasks = [t \in TaskIds |-> DeadTask("none", "")]
    /\ issued = 0
    /\ text \in [Buffers -> Texts]
    /\ status \in Statuses
    /\ compare = NoCompare
    /\ wait = NoWait
    /\ service = StartedService
    /\ todos_file = NoFile
    /\ next_uuid = 1
    /\ todo_run = NoRun
    /\ origin = NoOrigin
    /\ last = NoOp

NextEnabled == \E b \in Buffers : \E c \in CursorsOf(b, text[b]) : IsEnabledCall(b, c)

\* is_enabled evaluated for every buffer, cursor and service status.
SpecEnabled == InitAnyStatus /\ [][NextEnabled]_vars

\* ------------------------------------------ completion_test_cli: compare

\* struct CompletionResult; jump_target, supports_jump and duration are left out.
CompletionResult(provider, completion_type, range, txt, error) ==
    [ provider |-> provider, completion_type |-> completion_type, range |-> range,
      text |-> txt, error |-> error ]

\* The result a harness builds from a returned completion.
LocalResult(provider) ==
    CompletionResult(provider, Some("Local"), Some("(0,0)..(0,0)"), Some("text"), None)

\* The result a harness builds when it has nothing to show.
ErrorResult(provider, message) ==
    CompletionResult(provider, None, None, None, Some(message))

ProviderNames == << "zed", "copilot", "supermaven" >>

OutputFormats == {"Human", "Json", "Table"}

\* struct CommonArgs; of file only whether the path has a final component is
\* kept (Path::file_name is None for "/" and for paths ending in ".."), line
\* and column are left out.
CommonArgs == [has_file_name : BOOLEAN, output_format : OutputFormats]

\* The values test_<provider>_internal(args) can return: Err from any of its
\* `?` steps; for copilot and supermaven the not-ready result of the readiness
\* wait, which comes before the file is opened; and, once the file name has
\* been taken, a completion or the no-completion result.
HarnessReturns(provider, args) ==
    {Err("failed")}
        \cup (IF provider # "zed"
              THEN {Ok(ErrorResult(provider, "not ready"))} ELSE {})
        \cup (IF args.has_file_name
              THEN {Ok(LocalResult(provider)),
                    Ok(ErrorResult(provider, "No completion returned"))}
              ELSE {})

\* args.file.file_name().unwrap() panics inside the harness.
HarnessPanics(provider, args) == ~args.has_file_name

\* One entry of the array print_comparison_json prints.
JsonEntry(provider, result) ==
    IF result.ok
    THEN [provider |-> provider, success |-> TRUE, detail |-> result.value[1].text]
    ELSE [provider |-> provider, success |-> FALSE, detail |-> result.error]

\* One row of the table print_comparison prints.
TableRow(provider, result) ==
    IF result.ok
    THEN [provider |-> provider, success |-> TRUE,
          detail |-> IF result.value[1].text = None
                     THEN Some("N/A") ELSE result.value[1].text]
    ELSE [provider |-> provider, success |-> FALSE, detail |-> result.error]

\* print_comparison_json(&results)
PrintComparisonJson(results) ==
    [ printer |-> "print_comparison_json",
      entries |-> [i \in 1..Len(results) |-> JsonEntry(results[i][1], results[i][2])] ]

\* print_comparison(&results, show_diff)
PrintComparison(results, show_diff) ==
    [ printer |-> "print_comparison",
      entries |-> [i \in 1..Len(results) |-> TableRow(results[i][1], results[i][2])] ]

\* main dispatches Command::Compare to compare_all(args, timeout, show_diff).
CompareAll(args, show_diff) ==
    /\ compare.pc = "idle"
    /\ compare' = [compare EXCEPT !.pc = "call", !.args = Some(args),
                                   !.show_diff = show_diff]
    /\ last' = Last("compare_all", 0, None, None, args, None, FALSE, ProviderState, 0)
    /\ UNCHANGED << providerVars, tasks, issued, text, status, wait, service, todoVars, origin >>

\* The next of the three test_<provider>_internal(args.clone()) calls of
\* compare_all: it returns a Result, or panics and takes the process down.
TestInternal(provider) ==
    /\ compare.pc = "call"
    /\ Len(compare.invoked) < Len(ProviderNames)
    /\ provider = ProviderNames[Len(compare.invoked) + 1]
    /\ \/ \E result \in HarnessReturns(provider, compare.args[1]) :
             compare' = [compare EXCEPT !.invoked = Append(@, provider),
                                        !.returned = Append(@, result)]
       \/ /\ HarnessPanics(provider, compare.args[1])
          /\ compare' = [compare EXCEPT !.invoked = Append(@, provider),
                                        !.pc = "panicked"]
    /\ last' = Last("test_internal", 0, None, None, provider, None, FALSE, ProviderState, 0)
    /\ UNCHANGED << providerVars, tasks, issued, text, status, wait, service, todoVars, origin >>

\* The rest of compare_all: the three pushes and the printer chosen by
\* args.output_format.
PushAndPrint ==
    /\ compare.pc = "call"
    /\ Len(compare.invoked) = Len(ProviderNames)
    /\ LET results == [i \in 1..Len(ProviderNames) |->
                          << ProviderNames[i], compare.returned[i] >>]
       IN  compare' = [compare EXCEPT
               !.pc = "done",
               !.results = results,
               !.printed = Some(IF compare.args[1].output_format = "Json"
                                THEN PrintComparisonJson(results)
                                ELSE PrintComparison(results, compare.show_diff))]
    /\ last' = Last("print", 0, None, None, None, None, FALSE, ProviderState, 0)
    /\ UNCHANGED << providerVars, tasks, issued, text, status, wait, service, todoVars, origin >>

NextCompare ==
    \/ \E args \in CommonArgs, show_diff \in BOOLEAN : CompareAll(args, show_diff)
    \/ \E provider \in {"zed", "copilot", "supermaven"} : TestInternal(provider)
    \/ PushAndPrint

\* One run of the compare command with any arguments and harness outcomes.
SpecCompare == Init /\ [][NextCompare]_vars

\* ------------------------------------------- copilot_v2: CopilotV2 service

\* The most calls of sign_in and sign_out in one behaviour.
MaxCalls == 2

\* The task a call returned: spawned, (sign_in only) waiting for its 2 s
\* timer, done with Ok(()), or dropped by its holder before it finished.
ServiceTask(call, pc) == [ call |-> call, pc |-> pc ]

ServiceStep ==
    UNCHANGED << providerVars, tasks, issued, text, compare, wait, todoVars, origin, last >>

\* The maintenance task ends: get_copilot_lsp returned Ok or Err; either way
\* only a line is logged.
DownloadEnds(downloaded) ==
    /\ service.maintain_server = "downloading"
    /\ service' = [service EXCEPT !.maintain_server =
                                      IF downloaded THEN "ready" ELSE "failed"]
    /\ UNCHANGED status
    /\ ServiceStep

\* sign_in: spawns the mock sign-in task and returns it.
SignIn ==
    /\ Len(service.calls) < MaxCalls
    /\ service' = [service EXCEPT !.calls = Append(@, ServiceTask("sign_in", "spawned"))]
    /\ UNCHANGED status
    /\ ServiceStep

\* sign_out: spawns the mock sign-out task and returns it.
SignOut ==
    /\ Len(service.calls) < MaxCalls
    /\ service' = [service EXCEPT !.calls = Append(@, ServiceTask("sign_out", "spawned"))]
    /\ UNCHANGED status
    /\ ServiceStep

\* A sign-out task that signs the service out when it runs.
ServiceTaskRunsSigningOut(i) ==
    /\ i \in 1..Len(service.calls)
    /\ service.calls[i].pc \in {"spawned", "timer"}
    /\ service' = [service EXCEPT !.calls[i].pc =
                      IF @ = "spawned" /\ service.calls[i].call = "sign_in"
                      THEN "timer" ELSE "done"]
    /\ status' = IF service.calls[i].call = "sign_out" THEN SignedOut ELSE status
    /\ ServiceStep

\* A returned task is polled: the sign-in task first waits for its timer and
\* then ends with Ok(()), the sign-out task ends with Ok(()) at once.  Neither
\* closure touches the service (`_this` is unused).
ServiceTaskRuns(i) ==
    /\ i \in 1..Len(service.calls)
    /\ service.calls[i].pc \in {"spawned", "timer"}
    /\ service' = [service EXCEPT !.calls[i].pc =
                      IF @ = "spawned" /\ service.calls[i].call = "sign_in"
                      THEN "timer" ELSE "done"]
    /\ UNCHANGED status
    /\ ServiceStep

\* The holder of a returned task drops it before it has finished.
ServiceTaskDropped(i) ==
    /\ i \in 1..Len(service.calls)
    /\ service.calls[i].pc \in {"spawned", "timer"}
    /\ service' = [service EXCEPT !.calls[i].pc = "dropped"]
    /\ UNCHANGED status
    /\ ServiceStep

\* register_buffer: computes the buffer's id, logs it and returns a ready
\* Ok(()); registered_buffers is not written.
RegisterBuffer(b) ==
    /\ service' = [service EXCEPT !.registered = Some(b)]
    /\ UNCHANGED status
    /\ ServiceStep

NextService ==
    \/ \E downloaded \in BOOLEAN : DownloadEnds(downloaded)
    \/ SignIn
    \/ SignOut
    \/ \E i \in 1..MaxCalls : ServiceTaskRuns(i)
    \/ \E i \in 1..MaxCalls : ServiceTaskDropped(i)
    \/ \E b \in Buffers : RegisterBuffer(b)

InitService == Init /\ text = [b \in Buffers |-> << >>]

SpecService == InitService /\ [][NextService]_vars

\* -------------------------------- completion_test_cli: readiness wait

\* The loop bound of `while !status.is_authorized() && attempts < 50`.
MaxAttempts == 50

\* The harnesses that wait for their provider.
WaitingProviders == {"copilot", "supermaven"}

\* test_<provider>_internal up to the loop: the provider is started and its
\* readiness is read for the first time (copilot.rs l.37, supermaven.rs l.38).
StartWait(provider, ready) ==
    /\ wait.pc = "idle"
    /\ wait' = [wait EXCEPT !.pc = "loop", !.provider = provider, !.ready = ready,
                            !.reads = 1]
    /\ UNCHANGED << providerVars, tasks, issued, text, status, compare, service,
                    todoVars, origin, last >>

\* One iteration of the wait loop without the attempts bound.
WaitPollUnbounded(ready) ==
    /\ wait.pc = "loop"
    /\ ~wait.ready
    /\ wait.attempts <= MaxAttempts
    /\ wait' = [wait EXCEPT !.ready = ready, !.attempts = @ + 1, !.reads = @ + 1]
    /\ UNCHANGED << providerVars, tasks, issued, text, status, compare, service,
                    todoVars, origin, last >>

\* One iteration of the wait loop: the 100 ms timer, the next read of the
\* provider's readiness, attempts += 1.
WaitPoll(ready) ==
    /\ wait.pc = "loop"
    /\ ~wait.ready /\ wait.attempts < MaxAttempts
    /\ wait' = [wait EXCEPT !.ready = ready, !.attempts = @ + 1, !.reads = @ + 1]
    /\ UNCHANGED << providerVars, tasks, issued, text, status, compare, service,
                    todoVars, origin, last >>

\* The harness after the loop that goes on to the request whatever it read.
AfterWaitRequestingAnyway(result) ==
    /\ wait.pc = "loop"
    /\ wait.ready \/ wait.attempts >= MaxAttempts
    /\ result \in HarnessReturns(wait.provider, [has_file_name |-> TRUE,
                                                  output_format |-> "Human"])
    /\ wait' = [wait EXCEPT !.pc = "returned", !.requested = TRUE,
                            !.result = Some(result)]
    /\ UNCHANGED << providerVars, tasks, issued, text, status, compare, service,
                    todoVars, origin, last >>

\* The harness after the loop: if the provider is still not ready it returns
\* the not-ready result at once; otherwise it opens the file, requests the
\* completion and returns what came of it.
AfterWait(result) ==
    /\ wait.pc = "loop"
    /\ wait.ready \/ wait.attempts >= MaxAttempts
    /\ IF ~wait.ready
       THEN /\ result = Ok(ErrorResult(wait.provider, "not ready"))
            /\ wait' = [wait EXCEPT !.pc = "returned", !.result = Some(result)]
       ELSE /\ result \in { Err("failed"), Ok(LocalResult(wait.provider)),
                            Ok(ErrorResult(wait.provider, "No completion returned")) }
            /\ wait' = [wait EXCEPT !.pc = "returned", !.requested = TRUE,
                                    !.result = Some(result)]
    /\ UNCHANGED << providerVars, tasks, issued, text, status, compare, service,
                    todoVars, origin, last >>

\* A read of the provider fails (the `?` of read_with): the harness returns Err.
ReadFails ==
    /\ wait.pc = "loop"
    /\ ~wait.ready /\ wait.attempts < MaxAttempts
    /\ wait' = [wait EXCEPT !.pc = "returned", !.reads = @ + 1,
                            !.result = Some(Err("failed"))]
    /\ UNCHANGED << providerVars, tasks, issued, text, status, compare, service,
                    todoVars, origin, last >>

\* All results a harness can hand back.
HarnessResults ==
    UNION { HarnessReturns(provider, [has_file_name |-> TRUE, output_format |-> "Human"]) :
                provider \in WaitingProviders }

NextWait ==
    \/ \E provider \in WaitingProviders, ready \in BOOLEAN : StartWait(provider, ready)
    \/ \E ready \in BOOLEAN : WaitPoll(ready)
    \/ \E result \in HarnessResults : AfterWait(result)
    \/ ReadFails

\* A harness run from its start; the executor keeps polling the harness future
\* and its timers fire, so a step that is possible is eventually taken.
InitWait == Init /\ text = [b \in Buffers |-> << >>]

SpecWait == InitWait /\ [][NextWait]_vars /\ WF_vars(NextWait)

\* ------------------------------------------------------ agent2: todo_list

\* enum TodoStatus
TodoStatus == {"Pending", "InProgress", "Completed"}

\* struct TodoItem
TodoItem(id, content, todo_status) ==
    [id |-> id, content |-> content, status |-> todo_status]

\* enum TodoAction
TodoAction == {"Create", "Update", "List", "Clear"}

\* The content strings a caller passes.
Contents == {"a", "b"}

\* The ids Uuid::new_v4 hands out, in the order it hands them out.
Uuids == 1..MaxTodos

\* The status values a caller passes to Update.
StatusUpdates == {"Completed"}

\* struct TodoListToolInput: the inputs the tool is called with.  Fields an
\* action does not read (todo_id and status for Create, all three for List
\* and Clear) are left at their serde default, None.
TodoListToolInput ==
    { i \in [ action  : TodoAction,
              content : {None} \cup {Some(c) : c \in Contents},
              todo_id : {None} \cup {Some(id) : id \in Uuids},
              status  : {None} \cup {Some(st) : st \in StatusUpdates} ] :
          /\ i.action = "Create" => (i.todo_id = None /\ i.status = None)
          /\ i.action \in {"List", "Clear"} =>
                (i.content = None /\ i.todo_id = None /\ i.status = None) }

\* What the file system does to a save_todos call: it writes the file, fails
\* before touching it, or fails after fs::write has truncated it.
SaveOutcomes == {"written", "failed", "torn"}

\* TodoListTool::load_todos; has_worktree is whether get_todos_path finds a
\* worktree.
LoadTodos(file, has_worktree) ==
    IF ~has_worktree THEN Err("No worktree found")
    ELSE IF file.state = "absent" THEN Ok(<< >>)
    ELSE IF file.state = "unreadable" THEN Err("Failed to load")
    ELSE Ok(file.todos)

\* TodoListTool::save_todos: the file it leaves.
SaveTodos(file, todos, save_outcome) ==
    IF save_outcome = "written" THEN TodosFile("ok", todos)
    ELSE IF save_outcome = "torn" THEN TodosFile("unreadable", << >>)
    ELSE file

\* Index of the first item with the given id, 0 if there is none (the for loop
\* of lines 186-206 with its break).
RECURSIVE FirstWithId(_, _, _)
FirstWithId(todos, todo_id, i) ==
    IF i > Len(todos) THEN 0
    ELSE IF todos[i].id = todo_id THEN i
    ELSE FirstWithId(todos, todo_id, i + 1)

\* The assignments of lines 190-195 to the matching item.
UpdatedItem(todo, input) ==
    [ todo EXCEPT !.content = IF input.content # None THEN input.content[1] ELSE @,
                  !.status  = IF input.status # None THEN input.status[1] ELSE @ ]

\* What one run leaves: its output, the file, the save it made, the message it
\* sent and the id it drew.
RunResult(output, file, saved, message, uuid) ==
    [output |-> output, file |-> file, saved |-> saved, message |-> message,
     uuid |-> uuid]

\* A save of todos and the output built on its result (the match on
\* self.save_todos in Create, Update and Clear).
SaveAndReturn(file, todos, save_outcome, message, failure, uuid) ==
    IF save_outcome = "written"
    THEN RunResult(Ok(todos), SaveTodos(file, todos, save_outcome), save_outcome,
                   message, uuid)
    ELSE RunResult(Err(failure), SaveTodos(file, todos, save_outcome), save_outcome,
                   None, uuid)

\* Update that rewrites the matching item as a new Pending item under a new id.
RunUpdateReissuing(input, file, todos, uuid, save_outcome) ==
    IF input.todo_id = None
    THEN RunResult(Err("Todo ID is required for update action"), file, "none", None, 0)
    ELSE LET i == FirstWithId(todos, input.todo_id[1], 1)
         IN  IF i = 0
             THEN RunResult(Err("Todo not found"), file, "none", None, 0)
             ELSE SaveAndReturn(file,
                      [todos EXCEPT ![i] = TodoItem(uuid, UpdatedItem(todos[i], input).content,
                                                    "Pending")],
                      save_outcome, Some("Updated todo"), "Failed to save todos", 0)

\* Update that saves the list even when no item matched.
RunUpdateSavingAlways(input, file, todos, uuid, save_outcome) ==
    IF input.todo_id = None
    THEN SaveAndReturn(file, todos, save_outcome, None,
                       "Todo ID is required for update action", 0)
    ELSE LET i == FirstWithId(todos, input.todo_id[1], 1)
         IN  IF i = 0
             THEN RunResult(Err("Todo not found"), SaveTodos(file, todos, save_outcome),
                            save_outcome, None, 0)
             ELSE SaveAndReturn(file, [todos EXCEPT ![i] = UpdatedItem(todos[i], input)],
                                save_outcome, Some("Updated todo"),
                                "Failed to save todos", 0)

\* run, TodoAction::Update (lines 180-219)
RunUpdate(input, file, todos, uuid, save_outcome) ==
    IF input.todo_id = None
    THEN RunResult(Err("Todo ID is required for update action"), file, "none", None, 0)
    ELSE LET i == FirstWithId(todos, input.todo_id[1], 1)
         IN  IF i = 0
             THEN RunResult(Err("Todo not found"), file, "none", None, 0)
             ELSE SaveAndReturn(file, [todos EXCEPT ![i] = UpdatedItem(todos[i], input)],
                                save_outcome, Some("Updated todo"),
                                "Failed to save todos", 0)

\* Create that puts the new item at the front of the list.
RunCreatePrepending(input, file, todos, uuid, save_outcome) ==
    IF input.content = None
    THEN RunResult(Err("Content is required when creating a todo"), file, "none", None, 0)
    ELSE SaveAndReturn(file, << TodoItem(uuid, input.content[1], "Pending") >> \o todos,
                       save_outcome, Some("Created todo"), "Failed to save todos", uuid)

\* run, TodoAction::Create (lines 157-179)
RunCreate(input, file, todos, uuid, save_outcome) ==
    IF input.content = None
    THEN RunResult(Err("Content is required when creating a todo"), file, "none", None, 0)
    ELSE SaveAndReturn(file, Append(todos, TodoItem(uuid, input.content[1], "Pending")),
                       save_outcome, Some("Created todo"), "Failed to save todos", uuid)

\* run, TodoAction::List (lines 220-244)
RunList(input, file, todos, uuid, save_outcome) ==
    RunResult(Ok(todos), file, "none",
              IF todos = << >> THEN Some("No todos found") ELSE Some("Current todos"), 0)

\* Clear that returns the list it removed.
RunClearReturningOld(input, file, todos, uuid, save_outcome) ==
    IF save_outcome = "written"
    THEN RunResult(Ok(todos), SaveTodos(file, << >>, save_outcome), save_outcome,
                   Some("Cleared"), 0)
    ELSE RunResult(Err("Failed to clear todos"), SaveTodos(file, << >>, save_outcome),
                   save_outcome, None, 0)

\* run, TodoAction::Clear (lines 245-258)
RunClear(input, file, todos, uuid, save_outcome) ==
    SaveAndReturn(file, << >>, save_outcome, Some("Cleared"), "Failed to clear todos", 0)

\* run that gives up when load_todos fails.
RunFailingOnLoad(input, has_worktree, save_outcome) ==
    LET loaded == LoadTodos(todos_file, has_worktree)
        saving == IF has_worktree THEN save_outcome ELSE "failed"
        res    == IF ~loaded.ok
                  THEN RunResult(Err("Failed to load"), todos_file, "none", None, 0)
                  ELSE IF input.action = "Create"
                       THEN RunCreate(input, todos_file, loaded.value[1], next_uuid, saving)
                  ELSE IF input.action = "Update"
                       THEN RunUpdate(input, todos_file, loaded.value[1], next_uuid, saving)
                  ELSE IF input.action = "List"
                       THEN RunList(input, todos_file, loaded.value[1], next_uuid, saving)
                  ELSE RunClear(input, todos_file, loaded.value[1], next_uuid, saving)
    IN  /\ (input.action = "Create" /\ input.content # None) => next_uuid <= MaxTodos
        /\ todos_file' = res.file
        /\ next_uuid' = IF res.uuid # 0 THEN next_uuid + 1 ELSE next_uuid
        /\ todo_run' = [ input |-> Some(input), before |-> todos_file, loaded |-> loaded,
                         output |-> res.output, warned |-> FALSE,
                         message |-> res.message, saved |-> res.saved, uuid |-> res.uuid ]
        /\ UNCHANGED << providerVars, tasks, issued, text, status, compare, wait, service, origin, last >>

\* TodoListTool::run(input, event_stream, cx): load, the action, the save.  A
\* missing worktree makes get_todos_path fail in load_todos and in save_todos.
Run(input, has_worktree, save_outcome) ==
    LET loaded == LoadTodos(todos_file, has_worktree)
        todos  == IF loaded.ok THEN loaded.value[1] ELSE << >>
        saving == IF has_worktree THEN save_outcome ELSE "failed"
        res    == IF input.action = "Create"
                  THEN RunCreate(input, todos_file, todos, next_uuid, saving)
                  ELSE IF input.action = "Update"
                       THEN RunUpdate(input, todos_file, todos, next_uuid, saving)
                  ELSE IF input.action = "List"
                       THEN RunList(input, todos_file, todos, next_uuid, saving)
                  ELSE RunClear(input, todos_file, todos, next_uuid, saving)
    IN  /\ (input.action = "Create" /\ input.content # None) => next_uuid <= MaxTodos
        /\ todos_file' = res.file
        /\ next_uuid' = IF res.uuid # 0 THEN next_uuid + 1 ELSE next_uuid
        /\ todo_run' = [ input |-> Some(input), before |-> todos_file, loaded |-> loaded,
                         output |-> res.output, warned |-> ~loaded.ok,
                         message |-> res.message, saved |-> res.saved, uuid |-> res.uuid ]
        /\ UNCHANGED << providerVars, tasks, issued, text, status, compare, wait, service, origin, last >>

NextTodo ==
    \E input \in TodoListToolInput, has_worktree \in BOOLEAN :
        \E save_outcome \in (IF has_worktree THEN SaveOutcomes ELSE {"failed"}) :
            Run(input, has_worktree, save_outcome)

\* A project without a todos file; the editor's buffers play no part.
InitTodo == Init /\ text = [b \in Buffers |-> << >>]

\* Any sequence of todo_list tool calls on a project's todos file.
SpecTodo == InitTodo /\ [][NextTodo]_vars

\* ------------------------------------------------------------------ claims

\* The buffers and cursor positions suggest can be asked about in this state.
Queries == UNION { { << b, c >> : c \in CursorsOf(b, text[b]) } : b \in Buffers }

\* suggest just returned a prediction.
SuggestReturnedSome == last.op = "suggest" /\ last.result # None

\* C1 (as stated): whenever suggest returns a suggestion, it comes from the set
\* of the most recently issued refresh call.
C1_OnlyLastIssuedObservable ==
    SuggestReturnedSome => origin.task = issued

\* C1 (amended): whenever suggest returns a suggestion, it comes from the set
\* written by the most recent refresh that completed with a non-empty set, for
\* that refresh's buffer and cursor offset, and that refresh was the most
\* recently issued one at the moment it completed.
C1_ObservableSetWasLatestWhenWritten ==
    SuggestReturnedSome =>
        /\ origin.task \in 1..issued
        /\ origin.task = origin.issued
        /\ last.buffer = origin.buffer
        /\ ToOffset(last.cursor[1]) = origin.offset
        /\ last.result[1].edits[1].text = completions[1].text

\* C1 witness: refresh 1 was superseded in flight, refresh 2 completed, and
\* suggest returns refresh 2's suggestion.
C1_Witness ==
    /\ SuggestReturnedSome
    /\ tasks[1].pc = "cancelled"
    /\ origin.task = 2

\* C2: a refresh task that has been superseded by a newer refresh call never
\* mutates provider state: every change a completing task makes to the provider
\* is made by the task of the most recently issued refresh.
C2_SupersededNeverMutates ==
    [][ (last'.op = "complete" /\ providerVars' # providerVars)
            => last'.task = issued ]_vars

\* C2 witness: the first refresh was superseded inside its debounce delay, the
\* second one completed, and the cache holds exactly one suggestion, placed at
\* the second refresh's cursor offset.
C2_Witness ==
    /\ tasks[1].pc = "cancelled"
    /\ tasks[1].at = "timer"
    /\ tasks[2].pc = "done"
    /\ origin.task = 2
    /\ Len(completions) = 1
    /\ ToOffset(completions[1].range.start) = origin.offset
    /\ last.op = "complete"
    /\ last.prev.completions = << >>

\* C3: at most one refresh task is pending at any time, and it is the one whose
\* handle pending_refresh holds; every older task has been cancelled or is done.
C3_AtMostOnePending ==
    /\ Cardinality({ t \in TaskIds : Live(t) }) <= 1
    /\ \A t \in TaskIds : Live(t) => (t = issued /\ pending_refresh = Some(t))

\* C3 witness: a refresh was issued while another one was in flight; the older
\* task is cancelled and the newer one is pending.
C3_Witness ==
    \E t1, t2 \in TaskIds :
        /\ tasks[t1].pc = "cancelled"
        /\ Live(t2)
        /\ pending_refresh = Some(t2)

\* A refresh is in flight: its task was issued and has neither completed nor
\* been cancelled.
RefreshInFlight == \E t \in TaskIds : Live(t)

\* C4 (as stated): is_refreshing() is true exactly when a refresh is in flight
\* and the cached set is empty.
C4_IsRefreshingIffInFlightAndEmpty ==
    IsRefreshing <=> (RefreshInFlight /\ completions = << >>)

\* C5 (as stated, in the form a finite run refutes): once no refresh task is in
\* flight any more (each one completed or was cancelled), the provider holds no
\* pending refresh handle.
C5_IdleWhenNothingInFlight ==
    ~RefreshInFlight => pending_refresh = None

\* The task of the last operation ran generate_mock_completions with a cursor
\* offset beyond the text length.
CompletedBeyondText ==
    /\ last.op = "complete"
    /\ ToOffset(last.cursor[1]) > last.len

\* C6: suggest returns None for every buffer other than the one recorded by the
\* last refresh that populated the cache (none is recorded initially).
C6_OtherBufferYieldsNone ==
    /\ \A q \in Queries : Some(q[1]) # origin.buffer => Suggest(q[1], q[2]) = None
    /\ (last.op = "suggest" /\ last.buffer # origin.buffer) => last.result = None

\* C6 witness: the cache holds a suggestion of one buffer, suggest was asked
\* about another buffer at the very same offset, and returned None.
C6_Witness ==
    /\ last.op = "suggest"
    /\ origin.buffer # None
    /\ last.buffer # origin.buffer
    /\ ActiveCompletion # None
    /\ ToOffset(last.cursor[1]) = ToOffset(ActiveCompletion[1].range.start)
    /\ last.result = None

Suggestable(b, cursor_position) ==
    /\ active_completion_index < Len(completions)
    /\ buffer_id = Some(b)
    /\ LET active == completions[active_completion_index + 1]
       IN  /\ IsValid(active.range.start, b, text[b])
           /\ IsValid(active.range.end, b, text[b])
           /\ active.range.start.offset >= active.range.end.offset
           /\ active.range.start.offset = cursor_position.offset
           /\ \E i \in 1..Len(active.text) : ~IsWhitespace(active.text[i])

\* C8: suggest returns Some exactly when the recorded buffer is the queried one,
\* both ends of the active range are valid in the current snapshot, the range
\* is empty at the cursor offset and the text is not blank; the prediction is
\* then one insertion at the cursor of exactly the active suggestion's text.
C8_SuggestContract ==
    last.op = "suggest" =>
        LET b == last.buffer[1]
            c == last.cursor[1]
        IN  /\ last.result # None <=> Suggestable(b, c)
            /\ last.result # None =>
                  LET edits == last.result[1].edits
                  IN  /\ Len(edits) = 1
                      /\ edits[1].range.start = edits[1].range.end
                      /\ edits[1].range.start.buffer = b
                      /\ edits[1].range.start.offset = c.offset
                      /\ edits[1].text = completions[active_completion_index + 1].text

\* C8 witness: suggest returned a prediction.
C8_Witness ==
    /\ last.op = "suggest"
    /\ last.result # None
    /\ Suggestable(last.buffer[1], last.cursor[1])

\* The elements of a sequence.
Elems(seq) == { seq[i] : i \in 1..Len(seq) }

\* No two entries of the list agree in both text and range.
NoDuplicates(list) ==
    \A i, j \in 1..Len(list) :
        (list[i].text = list[j].text /\ list[i].range = list[j].range) => i = j

\* C9: when a refresh completes with a non-empty result, the cached set is
\* replaced wholesale in that one step: it holds exactly that refresh's
\* candidates, without duplicates, anchored in the refresh's buffer; the active
\* index is 0, the recorded buffer is the refresh's buffer, and the provider is
\* idle.
C9_ReplaceWholesale ==
    (last.op = "complete" /\ last.arg # << >>) =>
        /\ Elems(completions) = Elems(last.arg)
        /\ NoDuplicates(completions)
        /\ \A i \in 1..Len(completions) :
              /\ completions[i].range.start.buffer = last.buffer[1]
              /\ completions[i].range.start.offset = ToOffset(last.cursor[1])
        /\ active_completion_index = 0
        /\ buffer_id = last.buffer
        /\ pending_refresh = None
        /\ ~RefreshInFlight

\* C9 witness: a refresh completed and replaced a different, non-empty set.
C9_Witness ==
    /\ last.op = "complete"
    /\ last.arg # << >>
    /\ last.prev.completions # << >>
    /\ Elems(last.prev.completions) \cap Elems(completions) = {}

\* C10: dedup law.  Pushing a candidate whose text and range both equal those of
\* a cached candidate leaves the list unchanged, any other candidate is appended
\* at the end, and so the list never holds two candidates with the same text
\* and the same range.
C10_DedupLaw ==
    /\ NoDuplicates(completions)
    /\ last.op = "push" =>
          IF last.arg \in Elems(last.prev.completions)
          THEN completions = last.prev.completions
          ELSE completions = Append(last.prev.completions, last.arg)

\* C10 witness: the same candidate was pushed twice and the list has length 1.
C10_Witness ==
    /\ last.op = "push"
    /\ last.prev.completions = << last.arg >>
    /\ Len(completions) = 1

C12_NextThenPrevRestores ==
    ( /\ last.op = "cycle"
      /\ last.arg = "Prev"
      /\ last.follows # None
      /\ last.prev.completions # << >> ) =>
        (last.follows[1].direction = "Next" =>
            /\ active_completion_index = last.follows[1].index
            /\ completions = last.prev.completions)

\* C12 witness: cycle(Prev) ran right after cycle(Next) on a set of two or more
\* suggestions.
C12_Witness ==
    /\ last.op = "cycle"
    /\ last.arg = "Prev"
    /\ last.follows # None
    /\ last.follows[1].direction = "Next"
    /\ Len(completions) >= 2

\* C13: cycle on an empty set, in either direction, changes neither the active
\* index nor any other field of the provider, and notifies nobody.
C13_CycleOnEmptyIsNoOp ==
    (last.op = "cycle" /\ last.prev.completions = << >>) =>
        /\ ProviderState = last.prev
        /\ active_completion_index = 0
        /\ ~last.notified

\* C13 witness: both directions were cycled on an empty set, one after the
\* other, while a refresh was pending.
C13_Witness ==
    /\ last.op = "cycle"
    /\ completions = << >>
    /\ last.follows # None
    /\ last.follows[1].direction # last.arg
    /\ pending_refresh # None

\* C14: accept() with no active suggestion (empty cache) has no effect: no
\* completion is accepted and no field of the provider changes.
C14_AcceptOnEmptyIsNoOp ==
    (last.op = "accept" /\ last.prev.completions = << >>) =>
        /\ ProviderState = last.prev
        /\ last.result = None
        /\ ~last.notified

\* C14 witness: accept() was called on an empty cache while a refresh was
\* pending.
C14_Witness ==
    /\ last.op = "accept"
    /\ last.prev.completions = << >>
    /\ last.prev.pending_refresh # None

\* C15: discard() rejects nothing and changes no provider state whenever the
\* cache is empty, and also whenever edit-prediction display is disabled,
\* whatever the cache holds.
C15_DiscardNoOp ==
    (last.op = "discard" /\ (last.prev.completions = << >> \/ ~last.arg)) =>
        /\ ProviderState = last.prev
        /\ last.result = None
        /\ ~last.notified

\* C15 witness: discard() was called with display disabled on a non-empty
\* cache.
C15_Witness ==
    /\ last.op = "discard"
    /\ ~last.arg
    /\ last.prev.completions # << >>

CompareEnded == compare.pc \in {"done", "panicked"}

\* C17 (as stated): every run of compare_all invokes zed, copilot and
\* supermaven exactly once each, in that order, and hands exactly three
\* results, in that order, to the printer; a provider that fails is an error
\* entry and the remaining providers still run and are reported.
C17_AllThreeRunAndReported ==
    CompareEnded =>
        /\ compare.invoked = ProviderNames
        /\ compare.printed # None
        /\ Len(compare.printed[1].entries) = 3
        /\ \A i \in 1..3 :
              /\ compare.printed[1].entries[i].provider = ProviderNames[i]
              /\ compare.printed[1].entries[i].success = compare.returned[i].ok

\* Runs in which no harness panics do satisfy the statement of C17.
CompareReturnedAsStated ==
    compare.pc = "done" =>
        /\ compare.invoked = ProviderNames
        /\ compare.printed # None
        /\ Len(compare.printed[1].entries) = 3
        /\ \A i \in 1..3 :
              /\ compare.printed[1].entries[i].provider = ProviderNames[i]
              /\ compare.printed[1].entries[i].success = compare.returned[i].ok

\* C18: generation checks the cursor offset against the text length first: for
\* an offset beyond the text it returns an empty set, and for every offset up
\* to and including the text length it returns exactly one suggestion whose
\* range is empty and anchored at that offset in the refreshed buffer.
C18_GenerationValidatesOffset ==
    last.op = "complete" =>
        LET cursor_offset == ToOffset(last.cursor[1])
        IN  IF cursor_offset > last.len
            THEN last.arg = << >>
            ELSE /\ Len(last.arg) = 1
                 /\ last.arg[1].range.start = last.arg[1].range.end
                 /\ ToOffset(last.arg[1].range.start) = cursor_offset
                 /\ last.arg[1].range.start.buffer = last.buffer[1]

\* C18 witness: a generation ran with the cursor exactly at the end of a
\* non-empty text and produced its suggestion.
C18_Witness ==
    /\ last.op = "complete"
    /\ last.len > 0
    /\ ToOffset(last.cursor[1]) = last.len
    /\ last.arg # << >>

\* C19: a refresh called with debounce = true generates, and so can write the
\* provider, only after its timer of COPILOTV2_DEBOUNCE_TIMEOUT has elapsed; a
\* refresh called with debounce = false goes to generation with no delay step.
C19_DebounceBeforeGeneration ==
    last.op = "complete" =>
        LET from == last.follows[1]
        IN  IF from.debounce
            THEN from.at = "ready" /\ from.waited = COPILOTV2_DEBOUNCE_TIMEOUT
            ELSE from.at = "start" /\ from.waited = 0

\* C19 witness: a debounced refresh has just generated and written the cached
\* set.
C19_Witness ==
    /\ last.op = "complete"
    /\ last.follows[1].debounce
    /\ last.arg # << >>
    /\ origin.task = last.task

\* C20: in every state reached by refresh, refresh completion, cycle, accept,
\* discard and suggest, the cached set is empty or the active index is inside
\* it (and is 0 right after a replace), and a non-empty set comes with a
\* recorded buffer identity that every cached range was computed against.
C20_CacheWellFormed ==
    /\ completions = << >> \/ active_completion_index < Len(completions)
    /\ (last.op = "complete" /\ last.arg # << >>) => active_completion_index = 0
    /\ completions # << >> =>
          /\ buffer_id # None
          /\ \A i \in 1..Len(completions) :
                /\ completions[i].range.start.buffer = buffer_id[1]
                /\ completions[i].range.end.buffer = buffer_id[1]

\* C20 witness: a set computed for one buffer has just been replaced by a set
\* computed for the other.
C20_Witness ==
    /\ last.op = "complete"
    /\ last.arg # << >>
    /\ last.prev.completions # << >>
    /\ last.prev.buffer_id # None
    /\ last.prev.buffer_id # buffer_id

\* C21: cycle, in either direction and in every state, starts no fetch: the
\* pending refresh handle, the pending cycling-refresh handle, the cached set,
\* the recorded buffer, the spawned tasks and the count of issued refreshes
\* are left as they were.
C21_CycleStartsNoFetch ==
    [][ last'.op = "cycle" =>
            UNCHANGED << pending_refresh, pending_cycling_refresh, completions,
                         buffer_id, tasks, issued >> ]_vars

\* C21 witness: cycle(Prev) ran on a non-empty set while a refresh was pending.
C21_Witness ==
    /\ last.op = "cycle"
    /\ last.arg = "Prev"
    /\ completions # << >>
    /\ pending_refresh # None
    /\ Live(pending_refresh[1])

\* C22 (as stated): after discard() ran with edit predictions enabled the
\* cached set is empty and suggest returns None.
C22_DiscardClearsCache ==
    (last.op = "discard" /\ last.arg) =>
        /\ completions = << >>
        /\ \A q \in Queries : Suggest(q[1], q[2]) = None

\* C22 (amended): discard() with edit predictions enabled leaves the cached
\* set and every other field of the provider as they were; the suggestions it
\* would reject are exactly the cached ones.
C22_DiscardKeepsCache ==
    (last.op = "discard" /\ last.arg) =>
        /\ ProviderState = last.prev
        /\ last.result = (IF completions = << >> THEN None ELSE Some(completions))

\* C22 witness: discard() ran with edit predictions enabled on a non-empty set
\* and suggest still yields a prediction afterwards.
C22_Witness ==
    /\ last.op = "discard"
    /\ last.arg
    /\ completions # << >>
    /\ \E q \in Queries : Suggest(q[1], q[2]) # None

\* C23: a refresh whose generation yields an empty set changes nothing in the
\* provider (cached suggestions, active index, recorded buffer, file extension
\* and pending-refresh handle keep their values) and notifies nobody.
C23_EmptyRefreshChangesNothing ==
    (last.op = "complete" /\ last.arg = << >>) =>
        /\ ProviderState = last.prev
        /\ ~last.notified

\* C23 witness: a refresh generated an empty set while an earlier set was
\* cached.
C23_Witness ==
    /\ last.op = "complete"
    /\ last.arg = << >>
    /\ last.prev.completions # << >>
    /\ last.prev.pending_refresh = Some(last.task)

\* The last run of the todo tool was a call with the given action.
Ran(action) == todo_run.input # None /\ todo_run.input[1].action = action

\* The list the last run worked on: what load_todos returned, or nothing.
LoadedTodos == IF todo_run.loaded.ok THEN todo_run.loaded.value[1] ELSE << >>

\* The ids of the items of a list.
IdsOf(todos) == { todos[i].id : i \in 1..Len(todos) }

C25_UpdateUnknownIdWritesNothing ==
    ( /\ Ran("Update")
      /\ \/ todo_run.input[1].todo_id = None
         \/ todo_run.input[1].todo_id[1] \notin IdsOf(LoadedTodos) ) =>
        /\ ~todo_run.output.ok
        /\ todo_run.saved = "none"
        /\ todos_file = todo_run.before

\* C25 witness: an Update named an id that the non-empty stored list does not
\* hold.
C25_Witness ==
    /\ Ran("Update")
    /\ todo_run.input[1].todo_id # None
    /\ LoadedTodos # << >>
    /\ todo_run.input[1].todo_id[1] \notin IdsOf(LoadedTodos)

\* C26: a successful Update changes only the content and/or status that were
\* supplied, on the first item whose id matches; that item's id, the length
\* and order of the list and every other item stay as they were.  No Create,
\* Update or List call changes the id of an item that was stored before it and
\* is stored after it.
C26_UpdateKeepsIds ==
    /\ (Ran("Update") /\ todo_run.output.ok) =>
          LET old   == LoadedTodos
              new   == todos_file.todos
              input == todo_run.input[1]
              k     == FirstWithId(old, input.todo_id[1], 1)
          IN  /\ todos_file.state = "ok"
              /\ todo_run.output = Ok(new)
              /\ k > 0
              /\ Len(new) = Len(old)
              /\ \A i \in 1..Len(old) :
                    /\ new[i].id = old[i].id
                    /\ i # k => new[i] = old[i]
              /\ new[k].content =
                    (IF input.content = None THEN old[k].content ELSE input.content[1])
              /\ new[k].status =
                    (IF input.status = None THEN old[k].status ELSE input.status[1])
    /\ ( /\ (Ran("Create") \/ Ran("Update") \/ Ran("List"))
         /\ todo_run.before.state = "ok"
         /\ todos_file.state = "ok" ) =>
          \A i \in 1..Len(todo_run.before.todos) :
              /\ i <= Len(todos_file.todos)
              /\ todos_file.todos[i].id = todo_run.before.todos[i].id

\* C26 witness: an Update that supplied content but no status succeeded on the
\* second item of a list of two or more.
C26_Witness ==
    /\ Ran("Update")
    /\ todo_run.output.ok
    /\ todo_run.input[1].content # None
    /\ todo_run.input[1].status = None
    /\ Len(LoadedTodos) >= 2
    /\ FirstWithId(LoadedTodos, todo_run.input[1].todo_id[1], 1) = 2
    /\ todos_file.todos[2].content # LoadedTodos[2].content

\* C27: a Clear that succeeds persists an empty list and returns an empty
\* output whatever the list held before, so a List on the file it leaves
\* returns no items; List never writes the store.
C27_ClearEmptiesListReads ==
    /\ (Ran("Clear") /\ todo_run.output.ok) =>
          /\ todos_file = TodosFile("ok", << >>)
          /\ todo_run.output = Ok(<< >>)
    /\ Ran("List") =>
          /\ todo_run.saved = "none"
          /\ todos_file = todo_run.before
          /\ todo_run.output = Ok(LoadedTodos)
          /\ todo_run.before = TodosFile("ok", << >>) => todo_run.output = Ok(<< >>)

\* C27 witness: a Clear succeeded on a stored list that held items.
C27_Witness ==
    /\ Ran("Clear")
    /\ todo_run.output.ok
    /\ todo_run.before.state = "ok"
    /\ todo_run.before.todos # << >>

\* C28: when the stored list cannot be loaded, run warns and goes on with an
\* empty list: a Create that then succeeds persists a list holding only the
\* new item, List returns the empty list and leaves the store untouched, and
\* an Update fails and leaves the store untouched.
C28_LoadFailureStartsEmpty ==
    (todo_run.input # None /\ ~todo_run.loaded.ok) =>
        /\ todo_run.warned
        /\ (Ran("Create") /\ todo_run.output.ok) =>
              /\ todos_file.state = "ok"
              /\ Len(todos_file.todos) = 1
              /\ todos_file.todos[1].content = todo_run.input[1].content[1]
              /\ todos_file.todos[1].status = "Pending"
        /\ Ran("List") =>
              /\ todo_run.output = Ok(<< >>)
              /\ todos_file = todo_run.before
        /\ Ran("Update") =>
              /\ ~todo_run.output.ok
              /\ todos_file = todo_run.before

\* C28 witness: a Create succeeded on an unreadable file.
C28_Witness ==
    /\ Ran("Create")
    /\ todo_run.output.ok
    /\ todo_run.before.state = "unreadable"
    /\ ~todo_run.loaded.ok

\* The wait has ended without the provider becoming ready.
GaveUpWaiting == wait.pc = "returned" /\ ~wait.ready /\ wait.result # None /\ wait.result[1].ok

\* What holds of the readiness wait in every state.
WaitBoundedAndShaped ==
    /\ wait.attempts <= MaxAttempts
    /\ wait.reads <= MaxAttempts + 1
    /\ GaveUpWaiting =>
          /\ wait.attempts = MaxAttempts
          /\ wait.result[1].value[1].error # None
          /\ wait.result[1].value[1].completion_type = None
          /\ wait.result[1].value[1].range = None
          /\ wait.result[1].value[1].text = None
          /\ ~wait.requested

\* C29: the readiness wait of the copilot and supermaven harnesses ends after
\* at most 50 iterations of its loop; if the provider is still not ready then,
\* the harness returns Ok with the error field set and completion_type, range
\* and text absent, and has requested no completion.
C29_WaitEndsWithin50Polls ==
    /\ []WaitBoundedAndShaped
    /\ (wait.pc = "loop") ~> (wait.pc = "returned")

\* C29 witness: a harness gave up after its fiftieth poll.
C29_Witness ==
    /\ GaveUpWaiting
    /\ wait.attempts = MaxAttempts
    /\ wait.reads = MaxAttempts + 1

\* C30: the service's status is SignedIn{"test-user"} in every state, whatever
\* sign_in, sign_out and register_buffer calls were made and however the
\* language-server download ended, so status().is_authorized() is always true.
C30_StatusConstant ==
    /\ status = SignedIn("test-user")
    /\ IsAuthorized(status)

\* C30 witness: a sign-out task has completed, a sign-in task too, the download
\* has failed and a buffer was registered.
C30_Witness ==
    /\ \E i \in 1..Len(service.calls) :
          service.calls[i] = ServiceTask("sign_out", "done")
    /\ \E i \in 1..Len(service.calls) :
          service.calls[i] = ServiceTask("sign_in", "done")
    /\ service.maintain_server = "failed"
    /\ service.registered # None

====
